---- MODULE Spec2Model ----
(***************************************************************************)
(* A model of UTILS/validate_repo.py: the repository validator.  A run     *)
(* (main) loads the schema, walks the tree four times (cards, collections, *)
(* rules, decks), collects findings in a Context, prints a summary and     *)
(* exits.  Parsed JSON is modelled as a tagged value; Python's truthiness, *)
(* isinstance tests, dict lookups and the exceptions that str methods and  *)
(* hashing raise on values of the wrong type are modelled as the code      *)
(* meets them.                                                             *)
(***************************************************************************)
EXTENDS Integers, Sequences, FiniteSets, TLC

VARIABLES
    tree,        \* the files under the root, in traversal order (input)
    schemaFile,  \* the schema file: [exists, readable, json] (input)
    strict,      \* --strict (input)
    pc,          \* position of the run
    pos,         \* next tree position of the loop that is running
    schema,      \* ctx.schema
    findings,    \* ctx.findings
    card_index,  \* ctx.card_index
    scans,       \* card id -> number of tree searches _load_card_meta ran for it
    visited,     \* the validator calls made so far, in order
    locals,      \* the locals of the latest validate_deck_file call at its end
    summary,     \* what print_summary printed: counts and the "Result:" line
    exitStatus   \* the status the process ended with

vars == <<tree, schemaFile, strict, pc, pos, schema, findings, card_index,
          scans, visited, locals, summary, exitStatus>>

----------------------------------------------------------------------------
(* Parsed JSON: a tagged value.  t is the Python type after json.load,     *)
(* s the text of a str, n the number of an int (or 0/1 of a bool), l the   *)
(* elements of a list, d the items of a dict.                              *)

NoDict == [k \in {} |-> 0]
JNull == [t |-> "null", s |-> "", n |-> 0, l |-> <<>>, d |-> NoDict]
JStr(x) == [t |-> "str", s |-> x, n |-> 0, l |-> <<>>, d |-> NoDict]
JInt(k) == [t |-> "int", s |-> "", n |-> k, l |-> <<>>, d |-> NoDict]
JBool(b) == [t |-> "bool", s |-> "", n |-> IF b THEN 1 ELSE 0, l |-> <<>>, d |-> NoDict]
JList(q) == [t |-> "list", s |-> "", n |-> 0, l |-> q, d |-> NoDict]
JDict(f) == [t |-> "dict", s |-> "", n |-> 0, l |-> <<>>, d |-> f]

\* Python truthiness: `if cid:`, `not hero_id`, `x or ""`.
Truthy(v) ==
    CASE v.t = "str" -> v.s # ""
      [] v.t \in {"int", "bool"} -> v.n # 0
      [] v.t = "list" -> v.l # <<>>
      [] v.t = "dict" -> DOMAIN v.d # {}
      [] OTHER -> FALSE

\* isinstance(x, int): bool is a subclass of int.
IsInt(v) == v.t \in {"int", "bool"}
IsStr(v) == v.t = "str"
IsDict(v) == v.t = "dict"
IsList(v) == v.t = "list"
\* A list or a dict cannot be a dict key: `x in d`, `d[x]` raise TypeError.
Hashable(v) == v.t \notin {"list", "dict"}

\* dict.get(key) and dict.get(key, default); `key in obj`.
Has(obj, key) == key \in DOMAIN obj.d
Get(obj, key) == IF Has(obj, key) THEN obj.d[key] ELSE JNull
GetD(obj, key, default) == IF Has(obj, key) THEN obj.d[key] ELSE default

\* `(v or "")`, on which the code then calls a str method: the call raises
\* AttributeError when v is truthy and not a str.
OrEmptyRaises(v) == Truthy(v) /\ ~IsStr(v)
OrEmpty(v) == IF Truthy(v) THEN v.s ELSE ""

----------------------------------------------------------------------------
(* str methods on the strings the model's inputs use.                      *)

\* Mutant of Upper: the text is compared as written.
UpperAsIs(s) == s

\* str.upper()
Upper(s) ==
    CASE s = "ax" -> "AX"
      [] s = "br" -> "BR"
      [] s = "r" -> "R"
      [] s = "u" -> "U"
      [] s = "c" -> "C"
      [] OTHER -> s

\* str.strip().lower()
StripLower(s) ==
    CASE s \in {"Hero", "HERO", " hero "} -> "hero"
      [] s \in {"Held", "HELD", " held "} -> "held"
      [] s \in {"Token", "TOKEN"} -> "token"
      [] s \in {"Spielstein", "SPIELSTEIN"} -> "spielstein"
      [] s \in {"Spell"} -> "spell"
      [] s \in {"Character"} -> "character"
      [] s \in {"  "} -> ""
      [] OTHER -> s

\* The characters of an identifier, for the regular expression match.
Chars(s) ==
    CASE s = "H1" -> <<"H", "1">>
      [] s = "C1" -> <<"C", "1">>
      [] s = "C2" -> <<"C", "2">>
      [] s = "C3" -> <<"C", "3">>
      [] s = "T1" -> <<"T", "1">>
      [] s = "T2" -> <<"T", "2">>
      [] s = "H2" -> <<"H", "2">>
      [] s = "H3" -> <<"H", "3">>
      [] s = "N1" -> <<"N", "1">>
      [] s = "C1x" -> <<"C", "1", "x">>
      [] s = "c9" -> <<"c", "9">>
      [] s = "X9" -> <<"X", "9">>
      [] OTHER -> <<"?">>

UpperLetters == {"C", "H", "N", "T", "X"}
Digits == {"1", "2", "3", "9"}

\* The language of a pattern, as a predicate on character sequences.
\* ".+" is the default; "[A-Z][0-9]" is a schema's id_pattern.
InLanguage(pattern, cs) ==
    IF pattern = "[A-Z][0-9]"
    THEN Len(cs) = 2 /\ cs[1] \in UpperLetters /\ cs[2] \in Digits
    ELSE Len(cs) >= 1

\* re.compile(pattern).match(s): some prefix of s is in the language.
ReMatch(pattern, s) ==
    \E k \in 0..Len(Chars(s)) : InLanguage(pattern, SubSeq(Chars(s), 1, k))

----------------------------------------------------------------------------
(* Utilities                                                                *)

\* Mutant of TypeMapping: the German synonyms are missing.
TypeMappingEnglishOnly(v) ==
    CASE v \in {"permanent/landmark", "landmark"} -> "permanent"
      [] OTHER -> v

\* norm_type's mapping.get(v, v)
TypeMapping(v) ==
    CASE v \in {"hero", "held"} -> "hero"
      [] v \in {"companion", "begleiter"} -> "companion"
      [] v \in {"character", "charakter"} -> "character"
      [] v \in {"spell", "zauber"} -> "spell"
      [] v \in {"permanent", "permanent/landmark", "landmark"} -> "permanent"
      [] v \in {"token", "spielstein"} -> "token"
      [] OTHER -> v

norm_type_raises(value) == OrEmptyRaises(value)
norm_type(value) == TypeMapping(StripLower(OrEmpty(value)))

\* rarity_flags: <<is_rare, is_unique>>
rarity_flags_raises(card_obj) == OrEmptyRaises(Get(card_obj, "rarity"))
rarity_flags(card_obj) ==
    LET r == Upper(OrEmpty(Get(card_obj, "rarity")))
    IN  <<r = "R", Truthy(Get(card_obj, "unique")) \/ r = "U">>

\* get_schema_rule(schema, key, {}): schema.get("rules", {}).get(key, {})
EmptyRule == JDict(NoDict)
get_schema_rule(sch, key) == GetD(GetD(sch, "rules", EmptyRule), key, EmptyRule)

\* rule.get("required_fields", []) as a sequence of field names
RequiredFields(rule) == GetD(rule, "required_fields", JList(<<>>)).l

----------------------------------------------------------------------------
(* Paths.  A file is [dirs, name, suffix, readable, json]: the directories *)
(* below the root, the file name, its suffix, whether open+json.load       *)
(* succeeds, and the parsed content.                                       *)

Root == <<"/", "repo">>
Parts(f) == Root \o f.dirs \o <<f.name>>

InSeq(x, q) == \E i \in 1..Len(q) : q[i] = x
FirstIndex(x, q) == CHOOSE i \in 1..Len(q) : q[i] = x /\ \A j \in 1..(i - 1) : q[j] # x

is_json(f) == f.suffix \in {".json", ".JSON"}

\* parts.index("CARDS") is 0-based: len(parts) >= i + 5.
looks_like_card_file(f) ==
    /\ InSeq("CARDS", Parts(f))
    /\ Len(Parts(f)) >= (FirstIndex("CARDS", Parts(f)) - 1) + 5
    /\ is_json(f)

looks_like_collection_file(f) == InSeq("COLLECTION", Parts(f)) /\ is_json(f)
looks_like_deck_file(f) == InSeq("DECKS", Parts(f)) /\ is_json(f)
looks_like_rules_file(f) ==
    InSeq("RULES", Parts(f)) /\ (is_json(f) \/ f.suffix \in {".pdf", ".PDF"})

\* root.rglob(pattern): the patterns of scan_and_validate.
Rglob(phase, f) ==
    CASE phase = "cards" -> InSeq("CARDS", f.dirs) /\ f.suffix = ".json"
      [] phase = "collections" ->
            f.dirs # <<>> /\ f.dirs[Len(f.dirs)] = "COLLECTION" /\ f.suffix = ".json"
      [] phase = "rules" -> f.dirs # <<>> /\ f.dirs[Len(f.dirs)] = "RULES"
      [] phase = "decks" -> InSeq("DECKS", f.dirs) /\ f.suffix = ".json"
      [] OTHER -> FALSE

LooksLike(phase, f) ==
    CASE phase = "cards" -> looks_like_card_file(f)
      [] phase = "collections" -> looks_like_collection_file(f)
      [] phase = "rules" -> looks_like_rules_file(f)
      [] phase = "decks" -> looks_like_deck_file(f)
      [] OTHER -> FALSE

\* load_json: the parsed content, or {"__load_error__": str(e)}.
LoadErrorKey == "__load_error__"
load_json(f) ==
    IF f.readable THEN f.json ELSE JDict(LoadErrorKey :> JStr("error"))

\* isinstance(data, dict) and "__load_error__" in data
IsLoadError(data) == IsDict(data) /\ Has(data, LoadErrorKey)

----------------------------------------------------------------------------
(* Context.  A validator is a function from a context record               *)
(* [findings, card_index, scans, raised] to the context after it; raised   *)
(* says an exception is propagating, and every later statement is skipped. *)

Finding(path, level, message, i, args) ==
    [path |-> path, level |-> level, message |-> message, i |-> i, args |-> args]

\* Context.add
Add(c, path, level, message, i, args) ==
    [c EXCEPT !.findings = Append(@, Finding(path, level, message, i, args))]

Raise(c) == [c EXCEPT !.raised = TRUE]

\* Context.has_errors, Context.has_warnings
has_errors(fs) == \E k \in 1..Len(fs) : fs[k].level = "ERROR"
has_warnings(fs) == \E k \in 1..Len(fs) : fs[k].level = "WARN"

----------------------------------------------------------------------------
(* validate_card_file                                                       *)

\* Mutant of RequiredLoop: the loop stops at the first missing field.
RECURSIVE RequiredLoopFirstOnly(_, _, _, _, _, _)
RequiredLoopFirstOnly(c, path, i, obj, fields, k) ==
    IF k > Len(fields) THEN c
    ELSE IF ~Has(obj, fields[k].s)
    THEN Add(c, path, "ERROR", "Missing required field", i, <<fields[k]>>)
    ELSE RequiredLoopFirstOnly(c, path, i, obj, fields, k + 1)

\* The required-fields loop of a validator, from field k on.
RECURSIVE RequiredLoop(_, _, _, _, _, _)
RequiredLoop(c, path, i, obj, fields, k) ==
    IF k > Len(fields) THEN c
    ELSE RequiredLoop(
            IF ~Has(obj, fields[k].s)
            THEN Add(c, path, "ERROR", "Missing required field", i, <<fields[k]>>)
            ELSE c,
            path, i, obj, fields, k + 1)

\* d[key] = value
Assign(d, key, value) ==
    [x \in DOMAIN d \cup {key} |-> IF x = key THEN value ELSE d[x]]

\* Mutant of SetDefault: a plain assignment, the last variant wins.
SetDefaultOverwrites(index, cid, obj) == Assign(index, cid, obj)

\* ctx.card_index.setdefault(cid, obj): the first variant wins.
SetDefault(index, cid, obj) ==
    IF cid \in DOMAIN index THEN index ELSE Assign(index, cid, obj)

\* `if cid:` block: the pattern WARN, then the indexing.
CardIdBlock(c, rule, path, i, obj) ==
    LET cid == Get(obj, "id")
        pattern == GetD(rule, "id_pattern", JStr(".+")).s
    IN  IF ~Truthy(cid) THEN c
        ELSE IF ~IsStr(cid) THEN Raise(c)      \* id_re.match(cid): TypeError
        ELSE LET c1 == IF ~ReMatch(pattern, cid.s)
                       THEN Add(c, path, "WARN", "id does not match pattern", i, <<cid>>)
                       ELSE c
             IN  [c1 EXCEPT !.card_index = SetDefault(@, cid, obj)]

\* set(rule.get("allowed_rarities", []))
AllowedRarities(rule) ==
    LET q == GetD(rule, "allowed_rarities", JList(<<>>)).l
    IN  {q[k].s : k \in 1..Len(q)}

CardRarityBlock(c, rule, path, i, obj) ==
    LET rarity == Get(obj, "rarity")
    IN  IF c.raised \/ AllowedRarities(rule) = {} \/ ~Truthy(rarity) THEN c
        ELSE IF ~IsStr(rarity) THEN Raise(c)   \* rarity.upper(): AttributeError
        ELSE IF Upper(rarity.s) \notin AllowedRarities(rule)
             THEN Add(c, path, "WARN", "rarity not allowed", i, <<rarity>>)
             ELSE c

CardTypeBlock(c, path, i, obj) ==
    LET tv == GetD(obj, "type", JStr(""))
    IN  IF c.raised THEN c
        ELSE IF norm_type_raises(tv) THEN Raise(c)
        ELSE IF norm_type(tv) = ""
             THEN Add(c, path, "WARN", "empty/unknown type", i, <<>>)
             ELSE c

\* One iteration of `for i, obj in enumerate(items)`; i is Python's index.
CardItem(c, rule, path, i, obj) ==
    IF ~IsDict(obj) THEN Add(c, path, "ERROR", "Not a JSON object", i, <<>>)
    ELSE CardTypeBlock(
            CardRarityBlock(
                CardIdBlock(
                    RequiredLoop(c, path, i, obj, RequiredFields(rule), 1),
                    rule, path, i, obj),
                rule, path, i, obj),
            path, i, obj)

RECURSIVE CardLoop(_, _, _, _, _)
CardLoop(c, rule, path, items, k) ==
    IF k > Len(items) \/ c.raised THEN c
    ELSE CardLoop(CardItem(c, rule, path, k - 1, items[k]), rule, path, items, k + 1)

\* items = data if isinstance(data, list) else [data]
Items(data) == IF IsList(data) THEN data.l ELSE <<data>>

validate_card_file(c, sch, path, f) ==
    LET rule == get_schema_rule(sch, "card_file")
        data == load_json(f)
    IN  IF IsLoadError(data)
        THEN Add(c, path, "ERROR", "JSON load failed", -1, <<>>)
        ELSE CardLoop(c, rule, path, Items(data), 1)

----------------------------------------------------------------------------
(* validate_collection_file                                                 *)

CollectionCountBlock(c, path, i, obj, min_c, max_c) ==
    LET cnt == Get(obj, "count")
    IN  IF IsInt(cnt)
        THEN IF cnt.n < min_c \/ cnt.n > max_c
             THEN Add(c, path, "WARN", "count out of range", i,
                      <<cnt, JInt(min_c), JInt(max_c)>>)
             ELSE c
        ELSE Add(c, path, "ERROR", "count is not an integer", i, <<>>)

CollectionItem(c, rule, path, i, obj, min_c, max_c) ==
    IF ~IsDict(obj) THEN Add(c, path, "ERROR", "Not a JSON object", i, <<>>)
    ELSE CollectionCountBlock(
            RequiredLoop(c, path, i, obj, RequiredFields(rule), 1),
            path, i, obj, min_c, max_c)

RECURSIVE CollectionLoop(_, _, _, _, _, _, _)
CollectionLoop(c, rule, path, items, k, min_c, max_c) ==
    IF k > Len(items) THEN c
    ELSE CollectionLoop(CollectionItem(c, rule, path, k - 1, items[k], min_c, max_c),
                        rule, path, items, k + 1, min_c, max_c)

DefaultCountMin == 0
DefaultCountMax == 99

validate_collection_file(c, sch, path, f) ==
    LET rule == get_schema_rule(sch, "collection_file")
        data == load_json(f)
    IN  IF IsLoadError(data)
        THEN Add(c, path, "ERROR", "JSON load failed", -1, <<>>)
        ELSE CollectionLoop(c, rule, path, Items(data), 1,
                            GetD(rule, "count_min", JInt(DefaultCountMin)).n,
                            GetD(rule, "count_max", JInt(DefaultCountMax)).n)

----------------------------------------------------------------------------
(* validate_rules_file                                                      *)

\* str.lower() of the words a rules document and the schema's keywords use.
Lower(s) ==
    CASE s = "Mana" -> "mana"
      [] s = "Hero" -> "hero"
      [] OTHER -> s

SeqRange(q) == {q[k] : k \in 1..Len(q)}

\* The words of json.dumps(data).lower(): the lowered keys and strings of
\* the document.  `kw in blob` is modelled as: kw is one of these words.
RECURSIVE BlobWords(_)
BlobWords(j) ==
    CASE j.t = "str" -> {Lower(j.s)}
      [] j.t = "list" -> UNION {BlobWords(j.l[k]) : k \in 1..Len(j.l)}
      [] j.t = "dict" ->
            {Lower(key) : key \in DOMAIN j.d} \cup UNION {BlobWords(j.d[key]) : key \in DOMAIN j.d}
      [] OTHER -> {}

\* set(k.lower() for k in rule.get("required_keywords", []))
RequiredKeywords(rule) ==
    {Lower(kw.s) : kw \in SeqRange(GetD(rule, "required_keywords", JList(<<>>)).l)}

MissingKeywords(rule, data) == {kw \in RequiredKeywords(rule) : kw \notin BlobWords(data)}

\* The orders in which iterating a set may yield its members.
Orders(S) ==
    {q \in [1..Cardinality(S) -> S] : \A a, b \in 1..Cardinality(S) : a # b => q[a] # q[b]}

\* `missing` is listed in the set's iteration order, which `order` fixes.
validate_rules_file(c, sch, path, f, order) ==
    LET rule == get_schema_rule(sch, "rules_file")
        data == load_json(f)
    IN  IF f.suffix \in {".pdf", ".PDF"} THEN c
        ELSE IF IsLoadError(data)
        THEN Add(c, path, "ERROR", "JSON load failed", -1, <<>>)
        ELSE IF MissingKeywords(rule, data) # {}
        THEN Add(c, path, "WARN", "Missing indicative keywords", -1,
                 [k \in 1..Len(order) |-> JStr(order[k])])
        ELSE c

----------------------------------------------------------------------------
(* _load_card_meta                                                          *)

\* The files the loops over rglob("CARDS/**/*.json") reach and accept.
CardFilePositions ==
    {p \in 1..Len(tree) : Rglob("cards", tree[p]) /\ looks_like_card_file(tree[p])}

\* The record with id == card_id in one loaded file, or None.
RECURSIVE FindInList(_, _, _)
FindInList(items, card_id, k) ==
    IF k > Len(items) THEN JNull
    ELSE IF IsDict(items[k]) /\ Get(items[k], "id") = card_id THEN items[k]
    ELSE FindInList(items, card_id, k + 1)

FindInFile(data, card_id) ==
    IF IsDict(data) /\ Get(data, "id") = card_id THEN data
    ELSE IF IsList(data) THEN FindInList(data.l, card_id, 1)
    ELSE JNull

\* The lazy search through the card files, from tree position p on.
RECURSIVE LazySearch(_, _)
LazySearch(card_id, p) ==
    IF p > Len(tree) THEN JNull
    ELSE IF p \in CardFilePositions /\ FindInFile(load_json(tree[p]), card_id) # JNull
    THEN FindInFile(load_json(tree[p]), card_id)
    ELSE LazySearch(card_id, p + 1)

\* Whether a call looks the id up in the cache only.
CacheHit(c, card_id) == card_id \in DOMAIN c.card_index

CountScan(sc, card_id) ==
    Assign(sc, card_id, IF card_id \in DOMAIN sc THEN sc[card_id] + 1 ELSE 1)

\* _load_card_meta(ctx, card_id): [c |-> the context after, meta |-> the result].
\* `card_id in ctx.card_index` raises TypeError for an unhashable card_id.
load_card_meta(c, card_id) ==
    IF ~Hashable(card_id) THEN [c |-> Raise(c), meta |-> JNull]
    ELSE IF CacheHit(c, card_id) THEN [c |-> c, meta |-> c.card_index[card_id]]
    ELSE LET found == LazySearch(card_id, 1)
             c1 == [c EXCEPT !.scans = CountScan(@, card_id)]
         IN  IF found # JNull
             THEN [c |-> [c1 EXCEPT !.card_index = Assign(@, card_id, found)], meta |-> found]
             ELSE [c |-> c1, meta |-> JNull]

----------------------------------------------------------------------------
(* validate_deck_file.  Its state is [c, total_qty, name_counts,            *)
(* rare_count, unique_count, hero_seen, hero_faction, hero_meta, outcome]:  *)
(* the context and the function's locals; name_counts keeps insertion       *)
(* order, as a dict does; hero_meta is None until the hero lookup returns;  *)
(* outcome says how the call ended ("" while it runs).                      *)

DefaultMinCards == 40
DefaultMaxCards == 60
DefaultMaxSame == 3
DefaultMaxRare == 15
DefaultMaxUnique == 3

\* rule.get("constraints", {}) and the cons.get(key, default) lines
Constraints(rule) == GetD(rule, "constraints", JDict(NoDict))
\* Mutant of min_cards: without the key there is no lower bound.
min_cardsNoDefault(rule) == GetD(Constraints(rule), "min_cards", JInt(0)).n

min_cards(rule) == GetD(Constraints(rule), "min_cards", JInt(DefaultMinCards)).n
max_cards(rule) == GetD(Constraints(rule), "max_cards", JInt(DefaultMaxCards)).n
unique_hero(rule) == Truthy(GetD(Constraints(rule), "unique_hero", JBool(TRUE)))
max_same(rule) == GetD(Constraints(rule), "max_same_card", JInt(DefaultMaxSame)).n
max_rare(rule) == GetD(Constraints(rule), "max_rare_cards", JInt(DefaultMaxRare)).n
max_unique(rule) == GetD(Constraints(rule), "max_unique_cards", JInt(DefaultMaxUnique)).n
same_faction_as_hero(rule) ==
    Truthy(GetD(Constraints(rule), "same_faction_as_hero", JBool(TRUE)))

DeckStart(c) ==
    [c |-> c, total_qty |-> 0, name_counts |-> <<>>, rare_count |-> 0,
     unique_count |-> 0, hero_seen |-> 0, hero_faction |-> "", hero_meta |-> JNull,
     outcome |-> ""]

Stopped(ds) == ds.c.raised \/ ds.outcome # ""
DeckAdd(ds, path, message, i, args) ==
    [ds EXCEPT !.c = Add(@, path, "ERROR", message, i, args)]
DeckRaise(ds) == [ds EXCEPT !.c = Raise(@), !.outcome = "raised"]

\* The hero check, after the lookup returned hero_meta.
HeroFound(ds, path, data, hero_meta) ==
    LET hero_id == Get(data, "hero_id")
        tv == GetD(hero_meta, "type", JStr(""))
        d1 == IF norm_type(tv) # "hero"
              THEN DeckAdd(ds, path, "hero_id is not a Hero", -1,
                           <<hero_id, Get(hero_meta, "type")>>)
              ELSE ds
        hf == Get(hero_meta, "faction")
        deck_faction == Upper(OrEmpty(Get(data, "faction")))
        d2 == [d1 EXCEPT !.hero_faction = Upper(OrEmpty(hf))]
    IN  IF norm_type_raises(tv) THEN DeckRaise(ds)
        ELSE IF OrEmptyRaises(hf) THEN DeckRaise(d1)
        ELSE IF deck_faction # "" /\ d2.hero_faction # "" /\ deck_faction # d2.hero_faction
             THEN DeckAdd(d2, path, "Deck faction != hero faction", -1,
                          <<JStr(deck_faction), JStr(d2.hero_faction)>>)
             ELSE d2

HeroCheck(ds, path, data) ==
    LET hero_id == Get(data, "hero_id")
        r == load_card_meta(ds.c, hero_id)
        d1 == [ds EXCEPT !.c = r.c, !.hero_meta = r.meta]
    IN  IF Stopped(ds) THEN ds
        ELSE IF ~Truthy(hero_id) THEN DeckAdd(ds, path, "hero_id is missing", -1, <<>>)
        ELSE IF r.c.raised THEN DeckRaise(d1)
        ELSE IF ~Truthy(r.meta)
             THEN DeckAdd(d1, path, "hero_id not found", -1, <<hero_id>>)
             ELSE HeroFound(d1, path, data, r.meta)

\* Mutant of CountName: the latest quantity replaces the count of the name.
CountNameLatest(nc, name, qty) ==
    IF \E k \in 1..Len(nc) : nc[k].name = name
    THEN [k \in 1..Len(nc) |->
            IF nc[k].name = name THEN [nc[k] EXCEPT !.cnt = qty] ELSE nc[k]]
    ELSE Append(nc, [name |-> name, cnt |-> qty])

\* name_counts[name] = name_counts.get(name, 0) + qty
CountName(nc, name, qty) ==
    IF \E k \in 1..Len(nc) : nc[k].name = name
    THEN [k \in 1..Len(nc) |->
            IF nc[k].name = name THEN [nc[k] EXCEPT !.cnt = @ + qty] ELSE nc[k]]
    ELSE Append(nc, [name |-> name, cnt |-> qty])

\* meta.get("name") or meta.get("title") or cid
DisplayName(meta, cid) ==
    IF Truthy(Get(meta, "name")) THEN Get(meta, "name")
    ELSE IF Truthy(Get(meta, "title")) THEN Get(meta, "title")
    ELSE cid

\* The per-card checks of one entry whose card resolved to meta.
EntryResolved(ds, rule, path, i, hero_id, cid, qty, meta) ==
    LET name == DisplayName(meta, cid)
        flags == rarity_flags(meta)
        d1 == [ds EXCEPT !.name_counts = CountName(@, name, qty)]
        d2 == [d1 EXCEPT !.rare_count = IF flags[1] THEN @ + qty ELSE @,
                         !.unique_count = IF flags[2] THEN @ + qty ELSE @,
                         !.hero_seen = IF Truthy(hero_id) /\ cid = hero_id THEN @ + qty ELSE @]
        checks_faction == same_faction_as_hero(rule) /\ ds.hero_faction # ""
        cfv == Get(meta, "faction")
        cf == Upper(OrEmpty(cfv))
        d3 == IF checks_faction /\ cf # "" /\ cf # ds.hero_faction
              THEN DeckAdd(d2, path, "[cards] faction != hero faction", i,
                           <<name, JStr(cf), JStr(ds.hero_faction)>>)
              ELSE d2
        tv == GetD(meta, "type", JStr(""))
    IN  IF ~Hashable(name) THEN DeckRaise(ds)          \* name_counts.get: TypeError
        ELSE IF rarity_flags_raises(meta) THEN DeckRaise(d1)
        ELSE IF checks_faction /\ OrEmptyRaises(cfv) THEN DeckRaise(d2)
        ELSE IF norm_type_raises(tv) THEN DeckRaise(d3)
        ELSE IF norm_type(tv) = "token"
             THEN DeckAdd(d3, path, "[cards] appears to be a token", i, <<name>>)
             ELSE d3

\* Mutant of DeckEntry: the quantity is counted after the lookup, so an
\* unresolved entry adds nothing to the total.
DeckEntryCountsResolvedOnly(ds, rule, path, i, hero_id, entry) ==
    LET cid == Get(entry, "card_id")
        qty == Get(entry, "qty")
        r == load_card_meta(ds.c, cid)
        d2 == [ds EXCEPT !.c = r.c]
    IN  IF ~IsDict(entry)
        THEN DeckAdd(ds, path, "[cards] must be object", i, <<>>)
        ELSE IF ~Truthy(cid) \/ ~IsInt(qty)
        THEN DeckAdd(ds, path, "[cards] missing/invalid card_id or qty", i, <<>>)
        ELSE IF r.c.raised THEN DeckRaise(d2)
        ELSE IF ~Truthy(r.meta)
        THEN DeckAdd(d2, path, "[cards] card_id not found", i, <<cid>>)
        ELSE EntryResolved([d2 EXCEPT !.total_qty = @ + qty.n], rule, path, i, hero_id,
                           cid, qty.n, r.meta)

\* One iteration of `for i, entry in enumerate(cards)`.
DeckEntry(ds, rule, path, i, hero_id, entry) ==
    LET cid == Get(entry, "card_id")
        qty == Get(entry, "qty")
        d1 == [ds EXCEPT !.total_qty = @ + qty.n]
        r == load_card_meta(d1.c, cid)
        d2 == [d1 EXCEPT !.c = r.c]
    IN  IF ~IsDict(entry)
        THEN DeckAdd(ds, path, "[cards] must be object", i, <<>>)
        ELSE IF ~Truthy(cid) \/ ~IsInt(qty)
        THEN DeckAdd(ds, path, "[cards] missing/invalid card_id or qty", i, <<>>)
        ELSE IF r.c.raised THEN DeckRaise(d2)
        ELSE IF ~Truthy(r.meta)
        THEN DeckAdd(d2, path, "[cards] card_id not found", i, <<cid>>)
        ELSE EntryResolved(d2, rule, path, i, hero_id, cid, qty.n, r.meta)

RECURSIVE DeckLoop(_, _, _, _, _, _)
DeckLoop(ds, rule, path, hero_id, cards, k) ==
    IF k > Len(cards) \/ Stopped(ds) THEN ds
    ELSE DeckLoop(DeckEntry(ds, rule, path, k - 1, hero_id, cards[k]),
                  rule, path, hero_id, cards, k + 1)

\* The checks after the loop ("Mengen-Checks").
RECURSIVE NameCountLoop(_, _, _, _)
NameCountLoop(ds, rule, path, k) ==
    IF k > Len(ds.name_counts) THEN ds
    ELSE NameCountLoop(
            IF ds.name_counts[k].cnt > max_same(rule)
            THEN DeckAdd(ds, path, "More than max copies", -1,
                         <<ds.name_counts[k].name, JInt(ds.name_counts[k].cnt),
                           JInt(max_same(rule))>>)
            ELSE ds,
            rule, path, k + 1)

\* Mutant of DeckSizeCheck: the check is skipped once an entry was unresolved.
DeckSizeCheckResolvedOnly(ds, rule, path) ==
    IF /\ ds.total_qty < min_cards(rule) \/ ds.total_qty > max_cards(rule)
       /\ ~\E k \in 1..Len(ds.c.findings) :
              ds.c.findings[k].path = path /\ ds.c.findings[k].message = "[cards] card_id not found"
    THEN DeckAdd(ds, path, "Deck size not in range", -1,
                 <<JInt(ds.total_qty), JInt(min_cards(rule)), JInt(max_cards(rule))>>)
    ELSE ds

\* Mutant of DeckSizeCheck: the bounds themselves are out of range.
DeckSizeCheckExclusive(ds, rule, path) ==
    IF ds.total_qty <= min_cards(rule) \/ ds.total_qty >= max_cards(rule)
    THEN DeckAdd(ds, path, "Deck size not in range", -1,
                 <<JInt(ds.total_qty), JInt(min_cards(rule)), JInt(max_cards(rule))>>)
    ELSE ds

DeckSizeCheck(ds, rule, path) ==
    IF ds.total_qty < min_cards(rule) \/ ds.total_qty > max_cards(rule)
    THEN DeckAdd(ds, path, "Deck size not in range", -1,
                 <<JInt(ds.total_qty), JInt(min_cards(rule)), JInt(max_cards(rule))>>)
    ELSE ds

RareCheck(ds, rule, path) ==
    IF ds.rare_count > max_rare(rule)
    THEN DeckAdd(ds, path, "Too many rare cards", -1,
                 <<JInt(ds.rare_count), JInt(max_rare(rule))>>)
    ELSE ds

UniqueCheck(ds, rule, path) ==
    IF ds.unique_count > max_unique(rule)
    THEN DeckAdd(ds, path, "Too many unique cards", -1,
                 <<JInt(ds.unique_count), JInt(max_unique(rule))>>)
    ELSE ds

\* Mutant of HeroCopiesCheck: only a hero that was never counted is reported.
HeroCopiesCheckAbsentOnly(ds, rule, path) ==
    IF unique_hero(rule) /\ ds.hero_seen < 1
    THEN DeckAdd(ds, path, "Hero copies must be exactly 1", -1, <<JInt(ds.hero_seen)>>)
    ELSE ds

HeroCopiesCheck(ds, rule, path) ==
    IF unique_hero(rule) /\ ds.hero_seen # 1
    THEN DeckAdd(ds, path, "Hero copies must be exactly 1", -1, <<JInt(ds.hero_seen)>>)
    ELSE ds

Aggregate(ds, rule, path) ==
    IF Stopped(ds) THEN ds
    ELSE [HeroCopiesCheck(
            UniqueCheck(
                RareCheck(
                    NameCountLoop(DeckSizeCheck(ds, rule, path), rule, path, 1),
                    rule, path),
                rule, path),
            rule, path) EXCEPT !.outcome = "completed"]

\* cards = data.get("cards") or []
CardsOf(data) == IF Truthy(Get(data, "cards")) THEN Get(data, "cards") ELSE JList(<<>>)

\* From the required-fields loop to the end, for a deck that is an object.
DeckObject(ds, rule, path, data) ==
    LET d1 == [ds EXCEPT !.c = RequiredLoop(@, path, -1, data, RequiredFields(rule), 1)]
    IN  IF OrEmptyRaises(Get(data, "faction")) THEN DeckRaise(d1)
        ELSE IF ~IsList(CardsOf(data))
        THEN [DeckAdd(d1, path, "cards must be a list", -1, <<>>)
                EXCEPT !.outcome = "cards_not_list"]
        ELSE Aggregate(
                DeckLoop(HeroCheck(d1, path, data), rule, path,
                         Get(data, "hero_id"), CardsOf(data).l, 1),
                rule, path)

\* Mutant of validate_deck_file: the structural gate reports and does not return.
validate_deck_fileNoReturn(c, sch, path, f) ==
    LET rule == get_schema_rule(sch, "deck_file")
        data == load_json(f)
        ds == DeckStart(c)
    IN  IF IsLoadError(data)
        THEN [DeckAdd(ds, path, "JSON load failed", -1, <<>>) EXCEPT !.outcome = "load_error"]
        ELSE IF ~IsDict(data)
        THEN DeckObject(DeckAdd(ds, path, "Deck file must be a JSON object", -1, <<>>),
                        rule, path, data)
        ELSE DeckObject(ds, rule, path, data)

validate_deck_file(c, sch, path, f) ==
    LET rule == get_schema_rule(sch, "deck_file")
        data == load_json(f)
        ds == DeckStart(c)
    IN  IF IsLoadError(data)
        THEN [DeckAdd(ds, path, "JSON load failed", -1, <<>>) EXCEPT !.outcome = "load_error"]
        ELSE IF ~IsDict(data)
        THEN [DeckAdd(ds, path, "Deck file must be a JSON object", -1, <<>>)
                EXCEPT !.outcome = "not_object"]
        ELSE DeckObject(ds, rule, path, data)

----------------------------------------------------------------------------
(* scan_and_validate, print_summary, main                                   *)

Phases == {"cards", "collections", "rules", "decks"}

\* Mutant of PhaseOrder: the deck loop runs first, the card loop last.
PhaseOrderDecksFirst == <<"decks", "collections", "rules", "cards">>

\* The order of the four loops of scan_and_validate.
PhaseOrder == <<"cards", "collections", "rules", "decks">>

\* What follows a loop: the next loop, or print_summary after the last.
NextPhase(phase) ==
    LET k == FirstIndex(phase, PhaseOrder)
    IN  IF k < Len(PhaseOrder) THEN PhaseOrder[k + 1] ELSE "summary"

\* The files a loop still has to visit: rglob yields them, looks_like_* accepts them.
Pending(phase, p) ==
    {q \in p..Len(tree) : Rglob(phase, tree[q]) /\ LooksLike(phase, tree[q])}
NextPos(phase, p) == CHOOSE q \in Pending(phase, p) : \A r \in Pending(phase, p) : q <= r

Ctx == [findings |-> findings, card_index |-> card_index, scans |-> scans, raised |-> FALSE]

NoLocals ==
    [path |-> 0, total_qty |-> 0, name_counts |-> <<>>, rare_count |-> 0,
     unique_count |-> 0, hero_seen |-> 0, hero_faction |-> "", hero_meta |-> JNull,
     outcome |-> ""]
NoSummary == [printed |-> FALSE, indexed |-> 0, errors |-> 0, warnings |-> 0, result |-> ""]

\* The context after a validator call; an uncaught exception ends the
\* process with a traceback and status 1.
Commit(c, phase, p) ==
    /\ findings' = c.findings
    /\ card_index' = c.card_index
    /\ scans' = c.scans
    /\ visited' = Append(visited, [phase |-> phase, path |-> p])
    /\ pos' = p + 1
    /\ pc' = IF c.raised THEN "crashed" ELSE pc
    /\ exitStatus' = IF c.raised THEN 1 ELSE exitStatus
    /\ UNCHANGED <<tree, schemaFile, strict, schema, summary>>

\* main, up to Context(root=root, schema=schema)
MainStart ==
    /\ pc = "main"
    /\ IF ~schemaFile.exists \/ IsLoadError(load_json(schemaFile))
       THEN /\ pc' = "done"
            /\ exitStatus' = 1
            /\ UNCHANGED schema
       ELSE /\ pc' = PhaseOrder[1]
            /\ schema' = load_json(schemaFile)
            /\ UNCHANGED exitStatus
    /\ pos' = 1
    /\ UNCHANGED <<tree, schemaFile, strict, findings, card_index, scans, visited,
                   locals, summary>>

CardStep ==
    /\ pc = "cards"
    /\ Pending("cards", pos) # {}
    /\ LET p == NextPos("cards", pos)
       IN  \E c \in {validate_card_file(Ctx, schema, p, tree[p])} : Commit(c, "cards", p)
    /\ UNCHANGED locals

CollectionStep ==
    /\ pc = "collections"
    /\ Pending("collections", pos) # {}
    /\ LET p == NextPos("collections", pos)
       IN  Commit(validate_collection_file(Ctx, schema, p, tree[p]), "collections", p)
    /\ UNCHANGED locals

RulesStep ==
    /\ pc = "rules"
    /\ Pending("rules", pos) # {}
    /\ LET p == NextPos("rules", pos)
           missing == MissingKeywords(get_schema_rule(schema, "rules_file"),
                                      load_json(tree[p]))
       IN  \E order \in Orders(missing) :
               Commit(validate_rules_file(Ctx, schema, p, tree[p], order), "rules", p)
    /\ UNCHANGED locals

DeckStep ==
    /\ pc = "decks"
    /\ Pending("decks", pos) # {}
    /\ LET p == NextPos("decks", pos)
       IN  \E ds \in {validate_deck_file(Ctx, schema, p, tree[p])} :
           /\ Commit(ds.c, "decks", p)
           /\ locals' = [path |-> p, total_qty |-> ds.total_qty,
                         name_counts |-> ds.name_counts, rare_count |-> ds.rare_count,
                         unique_count |-> ds.unique_count, hero_seen |-> ds.hero_seen,
                         hero_faction |-> ds.hero_faction, hero_meta |-> ds.hero_meta,
                         outcome |-> ds.outcome]

\* A loop of scan_and_validate ends and the next begins (or print_summary).
EndLoop ==
    /\ pc \in Phases
    /\ Pending(pc, pos) = {}
    /\ pc' = NextPhase(pc)
    /\ pos' = 1
    /\ UNCHANGED <<tree, schemaFile, strict, schema, findings, card_index, scans,
                   visited, locals, summary, exitStatus>>

Errs(fs) == SelectSeq(fs, LAMBDA f : f.level = "ERROR")
Warns(fs) == SelectSeq(fs, LAMBDA f : f.level = "WARN")

\* print("Result:", "FAIL" if (errs or (strict and warns)) else "OK")
ResultLine(fs, st) ==
    IF Errs(fs) # <<>> \/ (st /\ Warns(fs) # <<>>) THEN "FAIL" ELSE "OK"

PrintSummary ==
    /\ pc = "summary"
    /\ summary' = [printed |-> TRUE,
                   indexed |-> Cardinality(DOMAIN card_index),
                   errors |-> Len(Errs(findings)),
                   warnings |-> Len(Warns(findings)),
                   result |-> ResultLine(findings, strict)]
    /\ pc' = "exit"
    /\ UNCHANGED <<tree, schemaFile, strict, pos, schema, findings, card_index, scans,
                   visited, locals, exitStatus>>

\* Mutant of ExitCode: --strict is not taken into account.
ExitCodeIgnoresStrict(fs, st) == IF has_errors(fs) THEN 1 ELSE 0

\* sys.exit(1 if (ctx.has_errors or (args.strict and ctx.has_warnings)) else 0)
ExitCode(fs, st) == IF has_errors(fs) \/ (st /\ has_warnings(fs)) THEN 1 ELSE 0

Exit ==
    /\ pc = "exit"
    /\ exitStatus' = ExitCode(findings, strict)
    /\ pc' = "done"
    /\ UNCHANGED <<tree, schemaFile, strict, pos, schema, findings, card_index, scans,
                   visited, locals, summary>>

Next ==
    \/ MainStart
    \/ CardStep
    \/ CollectionStep
    \/ RulesStep
    \/ DeckStep
    \/ EndLoop
    \/ PrintSummary
    \/ Exit

\* The state main starts in, for a tree, a schema file and a --strict flag.
Start(t, sf, st) ==
    /\ tree = t
    /\ schemaFile = sf
    /\ strict = st
    /\ pc = "main"
    /\ pos = 1
    /\ schema = JNull
    /\ findings = <<>>
    /\ card_index = NoDict
    /\ scans = NoDict
    /\ visited = <<>>
    /\ locals = NoLocals
    /\ summary = NoSummary
    /\ exitStatus = -1

----------------------------------------------------------------------------
(* Inputs: card records, files and schemas the runs are started on.        *)

File(dirs, name, suffix, readable, json) ==
    [dirs |-> dirs, name |-> name, suffix |-> suffix, readable |-> readable, json |-> json]

\* Sequences over S of length lo..hi.
SeqsOf(S, lo, hi) == UNION {[1..n -> S] : n \in lo..hi}

cH1 == JDict([id |-> JStr("H1"), type |-> JStr("Hero"),
              faction |-> JStr("AX"), rarity |-> JStr("C")])
cH2 == JDict([id |-> JStr("H2"), type |-> JStr(" held "), faction |-> JStr("br")])
cH3 == JDict([id |-> JStr("H3"), name |-> JStr("Hero Three"), type |-> JStr("HELD")])
cN1 == JDict([id |-> JStr("N1"), name |-> JStr("No Type"), faction |-> JStr("AX")])
cC1 == JDict([id |-> JStr("C1"), name |-> JStr("Alpha"), type |-> JStr("Character"),
              faction |-> JStr("AX"), rarity |-> JStr("R")])
cC1dup == JDict([id |-> JStr("C1"), name |-> JStr("Beta"), type |-> JStr("Spell"),
                 faction |-> JStr("BR")])
cC2 == JDict([id |-> JStr("C2"), name |-> JStr("Alpha"), type |-> JStr("Spell"),
              faction |-> JStr("ax"), rarity |-> JStr("u")])
cC3 == JDict([id |-> JStr("C3"), title |-> JStr("Alpha"), type |-> JStr("character"),
              faction |-> JStr("BR"), unique |-> JBool(TRUE)])
cT1 == JDict([id |-> JStr("T1"), name |-> JStr("Tok"), type |-> JStr("Spielstein")])
cT2 == JDict([id |-> JStr("T2"), name |-> JStr("Tok Two"), type |-> JStr("TOKEN"),
              faction |-> JStr("BR")])
cNoId == JDict([name |-> JStr("Nameless"), type |-> JStr("  "), rarity |-> JStr("X")])
cOdd == JDict([id |-> JStr("c9"), type |-> JStr("spell"), rarity |-> JStr("X")])
cLongId == JDict([id |-> JStr("C1x"), type |-> JStr("spell")])
cBadId == JDict([id |-> JInt(5), type |-> JStr("spell")])
cBadType == JDict([id |-> JStr("C3"), type |-> JInt(3)])
cBadFaction == JDict([id |-> JStr("X9"), type |-> JStr("spell"), faction |-> JInt(7)])
cBadRarity == JDict([id |-> JStr("C2"), type |-> JStr("spell"), rarity |-> JInt(1)])
\* A card object that holds a key named __load_error__.
cKeyed == JDict((LoadErrorKey :> JStr("note")) @@ [id |-> JStr("c9"), type |-> JStr("spell")])

CardDirs == <<"CARDS", "EN", "S1", "AX">>
CardFile(name, json) == File(CardDirs, name, ".json", TRUE, json)
Unreadable(f) == [f EXCEPT !.readable = FALSE, !.json = JNull]

Entry(cid, qty) == JDict([card_id |-> cid, qty |-> qty])
Deck(hero, faction, cards) ==
    JDict([deck_name |-> JStr("d"), hero_id |-> hero, faction |-> faction, cards |-> cards])
DeckFile(name, json) == File(<<"DECKS", "mine">>, name, ".json", TRUE, json)

CollectionFile(json) == File(<<"COLLECTION">>, "col.json", ".json", TRUE, json)
RulesJson(json) == File(<<"RULES">>, "rules.json", ".json", TRUE, json)
RulesPdf == File(<<"RULES">>, "rules.pdf", ".pdf", TRUE, JNull)

\* Schemas.  SmallCons lets a deck of a few cards be legal.
SmallCons ==
    JDict([min_cards |-> JInt(2), max_cards |-> JInt(4), unique_hero |-> JBool(TRUE),
           max_same_card |-> JInt(2), max_rare_cards |-> JInt(1),
           max_unique_cards |-> JInt(1), same_faction_as_hero |-> JBool(TRUE)])
CardRule ==
    JDict([required_fields |-> JList(<<JStr("id"), JStr("type")>>),
           id_pattern |-> JStr("[A-Z][0-9]"),
           allowed_rarities |-> JList(<<JStr("C"), JStr("R"), JStr("U")>>)])
CollectionRule ==
    JDict([required_fields |-> JList(<<JStr("card_id")>>),
           count_min |-> JInt(1), count_max |-> JInt(3)])
RulesRule == JDict([required_keywords |-> JList(<<JStr("Mana"), JStr("Hero")>>)])
DeckRule(cons) ==
    JDict([required_fields |-> JList(<<JStr("hero_id"), JStr("cards")>>),
           constraints |-> cons])
DeckRuleNoCons == JDict([required_fields |-> JList(<<JStr("hero_id"), JStr("cards")>>)])

SchemaOf(rules) == JDict([rules |-> JDict(rules)])
FullSchema ==
    SchemaOf([card_file |-> CardRule, collection_file |-> CollectionRule,
              rules_file |-> RulesRule, deck_file |-> DeckRule(SmallCons)])
\* Only two constraints are set, both to false.
LaxSchema ==
    SchemaOf([card_file |-> CardRule, collection_file |-> CollectionRule,
              rules_file |-> RulesRule,
              deck_file |-> DeckRule(JDict([unique_hero |-> JBool(FALSE),
                                            same_faction_as_hero |-> JBool(FALSE)]))])
\* No deck_file category.
NoDeckSchema ==
    SchemaOf([card_file |-> CardRule, collection_file |-> CollectionRule,
              rules_file |-> RulesRule])
\* A deck_file category without constraints.
NoConsSchema ==
    SchemaOf([card_file |-> CardRule, collection_file |-> CollectionRule,
              rules_file |-> RulesRule, deck_file |-> DeckRuleNoCons])
\* No "rules" key at all.
EmptySchema == JDict(NoDict)

SchemaFileOf(json) == [exists |-> TRUE, readable |-> TRUE, json |-> json]
MissingSchemaFile == [exists |-> FALSE, readable |-> FALSE, json |-> JNull]
BrokenSchemaFile == [exists |-> TRUE, readable |-> FALSE, json |-> JNull]

----------------------------------------------------------------------------
(* Spec: whole runs of main over small trees.                               *)

MaxDecks == 2

\* The card files of a tree, in traversal order.
CardTrees ==
    { <<CardFile("a.json", JList(<<cH1, cC1>>)), CardFile("b.json", JList(<<cC1dup, cT1>>))>>,
      <<CardFile("a.json", JList(<<cC1dup, JInt(3), cH1, cC1, cNoId>>))>>,
      <<CardFile("a.json", cH1), CardFile("b.json", JList(<<cLongId, cC1, cOdd>>))>>,
      <<Unreadable(CardFile("a.json", JNull)), CardFile("b.json", JList(<<cH1, cBadFaction>>))>>,
      <<CardFile("a.json", JList(<<cC1, cBadId>>)), CardFile("b.json", cH1)>>,
      <<CardFile("a.json", JList(<<cH1, cBadType, cC1>>))>>,
      <<CardFile("a.json", JList(<<cH1, cBadRarity>>)), CardFile("b.json", JList(<<cC1>>))>>,
      <<CardFile("a.json", cKeyed), CardFile("b.json", JList(<<cH1, cC1>>)),
        File(<<"CARDS">>, "short.json", ".json", TRUE, cT1)>> }

\* A file below both a DECKS and a CARDS directory.
DualFile ==
    File(<<"DECKS", "CARDS", "EN", "S1", "AX">>, "x.json", ".json", TRUE,
         JDict([id |-> JStr("C3"), type |-> JStr("spell"), hero_id |-> JStr("H1"),
                cards |-> JList(<<Entry(JStr("H1"), JInt(1)), Entry(JStr("C3"), JInt(1))>>)]))

DeckChoices ==
    { DeckFile("good.json", Deck(JStr("H1"), JStr("AX"),
                                 JList(<<Entry(JStr("H1"), JInt(1)), Entry(JStr("C1"), JInt(1))>>))),
      DeckFile("missing.json", Deck(JStr("Z0"), JStr("AX"),
                                    JList(<<Entry(JStr("Z0"), JInt(1)), Entry(JStr("Z0"), JInt(1))>>))),
      DeckFile("lazy.json", Deck(JStr("H1"), JNull,
                                 JList(<<Entry(JStr("c9"), JInt(1)), Entry(JStr("c9"), JInt(2)),
                                         Entry(JStr("X9"), JInt(1))>>))),
      DeckFile("list.json", JList(<<Entry(JStr("c9"), JInt(1))>>)),
      DualFile }

\* The deck files of a tree: distinct files, in any traversal order.
DeckTrees ==
    { q \in SeqsOf(DeckChoices, 1, MaxDecks) : \A i, j \in DOMAIN q : i # j => q[i] # q[j] }

\* The collection and rules files of a tree.
OtherFiles ==
    { <<CollectionFile(JList(<<JDict([card_id |-> JStr("C1"), count |-> JInt(2)])>>)), RulesPdf,
        RulesJson(JDict([Mana |-> JStr("Hero")]))>>,
      <<CollectionFile(JList(<<JInt(1), JDict([count |-> JInt(150)])>>)),
        Unreadable(CollectionFile(JNull)),
        RulesJson(JDict([text |-> JStr("no keyword here")]))>> }

Trees == {cs \o os \o ds : cs \in CardTrees, os \in OtherFiles, ds \in DeckTrees}

SchemaFiles ==
    { SchemaFileOf(FullSchema), SchemaFileOf(EmptySchema), MissingSchemaFile, BrokenSchemaFile }

Init == \E t \in Trees, sf \in SchemaFiles, st \in BOOLEAN : Start(t, sf, st)

Spec == Init /\ [][Next]_vars

----------------------------------------------------------------------------
(* Properties of whole runs.                                                *)

AnyFinding(level) == \E k \in 1..Len(findings) : findings[k].level = level

\* Whether the validator call for tree position p in a loop has been made.
Visited(phase, p) == \E k \in 1..Len(visited) : visited[k] = [phase |-> phase, path |-> p]

\* C1: once scan_and_validate has run and the summary is printed, the result
\* is FAIL exactly when there is an ERROR, or --strict is on and there is a
\* WARN, and OK otherwise; the process then exits with 1 exactly when the
\* printed result is FAIL and with 0 exactly when it is OK.
C1_ResultAndExitStatus ==
    /\ summary.printed =>
          /\ summary.result \in {"FAIL", "OK"}
          /\ summary.result = "FAIL" <=> (AnyFinding("ERROR") \/ (strict /\ AnyFinding("WARN")))
    /\ (summary.printed /\ pc = "done") =>
          /\ exitStatus = 1 <=> summary.result = "FAIL"
          /\ exitStatus = 0 <=> summary.result = "OK"

\* A run that ended with warnings only: OK and 0 without --strict.
C1_Witness ==
    /\ pc = "done" /\ summary.printed /\ ~strict
    /\ AnyFinding("WARN") /\ ~AnyFinding("ERROR")
    /\ summary.result = "OK" /\ exitStatus = 0

\* C2: the tree search of _load_card_meta runs at most once per card id in
\* a run, whether the first lookup of the id ended in a hit or in a miss.
C2_ScanAtMostOncePerId == \A id \in DOMAIN scans : scans[id] <= 1

\* C3: a record in the Card Index never changes and never leaves: no card
\* file validation and no lazy lookup overwrites an id that is indexed.
C3_FirstSeenWins ==
    [][\A id \in DOMAIN card_index :
          id \in DOMAIN card_index' /\ card_index'[id] = card_index[id]]_vars

\* The card loop is over; a.json held C1 as "Alpha", b.json held another C1
\* ("Beta"), and the index holds the first.
C3_Witness ==
    /\ pc = "collections"
    /\ Visited("cards", 1) /\ Visited("cards", 2)
    /\ tree[1].json = JList(<<cH1, cC1>>)
    /\ tree[2].json = JList(<<cC1dup, cT1>>)
    /\ JStr("C1") \in DOMAIN card_index
    /\ card_index[JStr("C1")] = cC1

\* C4: no validate_card_file call follows a validate_deck_file call, and
\* when a deck file is validated every card file has been validated.
C4_CardsBeforeDecks ==
    \A j \in 1..Len(visited) :
        visited[j].phase = "decks" =>
            /\ \A k \in (j + 1)..Len(visited) : visited[k].phase # "cards"
            /\ \A p \in CardFilePositions :
                  \E i \in 1..(j - 1) : visited[i] = [phase |-> "cards", path |-> p]

\* A file below DECKS and CARDS has been validated as a card file and then
\* as a deck file.
C4_Witness ==
    \E p \in 1..Len(tree) :
        /\ tree[p] = DualFile
        /\ Visited("cards", p) /\ Visited("decks", p)

\* C5: no validator raises: the run never ends in an uncaught exception,
\* and when the four loops are over every file they select was visited.
C5_FindingsNeverRaised ==
    /\ pc # "crashed"
    /\ pc \in {"summary", "exit", "done"} /\ schema # JNull =>
          \A phase \in Phases : \A p \in Pending(phase, 1) : Visited(phase, p)

----------------------------------------------------------------------------
(* SpecDeck: validate_deck_file on one deck file, from the state main is   *)
(* in when the deck loop starts.  SpecCollection: the same for             *)
(* validate_collection_file.                                                *)

\* The card loop of scan_and_validate, from tree position p on.
RECURSIVE RunCards(_, _, _)
RunCards(c, sch, p) ==
    IF Pending("cards", p) = {} \/ c.raised THEN c
    ELSE RunCards(validate_card_file(c, sch, NextPos("cards", p), tree[NextPos("cards", p)]),
                  sch, NextPos("cards", p) + 1)

RECURSIVE VisitsFrom(_, _)
VisitsFrom(phase, p) ==
    IF Pending(phase, p) = {} THEN <<>>
    ELSE <<[phase |-> phase, path |-> NextPos(phase, p)]>>
            \o VisitsFrom(phase, NextPos(phase, p) + 1)

EmptyCtx == [findings |-> <<>>, card_index |-> NoDict, scans |-> NoDict, raised |-> FALSE]

\* The state at the start of a loop after the card loop, for a tree whose
\* card files raise nothing and that has no file for the loops in between.
StartAt(phase, t, sch, st) ==
    /\ tree = t
    /\ schemaFile = SchemaFileOf(sch)
    /\ strict = st
    /\ pc = phase
    /\ pos = 1
    /\ schema = sch
    /\ \E c \in {RunCards(EmptyCtx, sch, 1)} :
          findings = c.findings /\ card_index = c.card_index
    /\ scans = NoDict
    /\ visited = VisitsFrom("cards", 1)
    /\ locals = NoLocals
    /\ summary = NoSummary
    /\ exitStatus = -1

MaxEntries == 2

DeckCards ==
    <<CardFile("all.json", JList(<<cH1, cH2, cH3, cC1, cC2, cC3, cT1, cT2, cN1, cBadFaction>>))>>

Entries ==
    { Entry(JStr("H1"), JInt(1)), Entry(JStr("H1"), JInt(0)), Entry(JStr("H1"), JInt(2)),
      Entry(JStr("H1"), JInt(-1)), Entry(JStr("C1"), JInt(1)), Entry(JStr("C1"), JInt(40)),
      Entry(JStr("C2"), JInt(2)), Entry(JStr("C3"), JInt(1)), Entry(JStr("T1"), JInt(1)),
      Entry(JStr("T2"), JInt(1)),
      Entry(JStr("Z0"), JInt(2)), Entry(JStr("X9"), JInt(1)),
      JInt(7), Entry(JStr("C1"), JStr("2")), Entry(JStr(""), JInt(1)),
      Entry(JStr("C1"), JBool(TRUE)) }

Heroes ==
    { JStr("H2"), JStr("H3"), JStr("T1"), JStr("T2"), JStr("C1"), JStr("N1"), JStr("Z0"),
      JStr("X9"),
      JNull, JList(<<JStr("H1")>>) }
Factions == {JStr("AX"), JStr("br"), JNull, JInt(5)}
CardsValues ==
    { JList(<<Entry(JStr("C3"), JInt(1))>>), JStr("abc"), JInt(0), JDict(NoDict), JBool(TRUE) }

DeckContents ==
    {Deck(JStr("H1"), JStr("AX"), JList(cs)) : cs \in SeqsOf(Entries, 0, MaxEntries)}
        \cup {Deck(h, f, cv) : h \in Heroes, f \in Factions, cv \in CardsValues}
        \cup { JList(<<Entry(JStr("H1"), JInt(1))>>), JStr("deck"),
               JDict([deck_name |-> JStr("bare")]),
               JDict((LoadErrorKey :> JStr("note")) @@ [hero_id |-> JStr("H1")]) }

DeckInputs ==
    {DeckFile("d.json", d) : d \in DeckContents} \cup {Unreadable(DeckFile("d.json", JNull))}

\* The deck_file category of FullSchema and no other: card files are
\* validated without rules.
DeckOnlySchema == SchemaOf([deck_file |-> DeckRule(SmallCons)])

DeckSchemas == {DeckOnlySchema, LaxSchema, NoDeckSchema, NoConsSchema}

InitDeck ==
    \E f \in DeckInputs, sch \in DeckSchemas :
        StartAt("decks", DeckCards \o <<f>>, sch, FALSE)

NextDeck ==
    \/ DeckStep
    \/ EndLoop
    \/ PrintSummary
    \/ Exit

SpecDeck == InitDeck /\ [][NextDeck]_vars

MaxItems == 2

CollectionElements ==
    { JDict([card_id |-> JStr("C1")]),
      JDict([card_id |-> JStr("C1"), count |-> JInt(0)]),
      JDict([card_id |-> JStr("C1"), count |-> JInt(1)]),
      JDict([card_id |-> JStr("C1"), count |-> JInt(3)]),
      JDict([card_id |-> JStr("C1"), count |-> JInt(4)]),
      JDict([card_id |-> JStr("C1"), count |-> JInt(99)]),
      JDict([card_id |-> JStr("C1"), count |-> JInt(100)]),
      JDict([count |-> JInt(150)]),
      JDict([count |-> JInt(-1)]),
      JDict([card_id |-> JStr("C1"), count |-> JStr("2")]),
      JDict([card_id |-> JStr("C1"), count |-> JNull]),
      JDict([card_id |-> JStr("C1"), count |-> JBool(TRUE)]),
      JInt(5) }

CollectionInputs ==
    {CollectionFile(JList(q)) : q \in SeqsOf(CollectionElements, 0, MaxItems)}
        \cup {CollectionFile(e) : e \in CollectionElements}
        \cup {Unreadable(CollectionFile(JNull))}

InitCollection ==
    \E f \in CollectionInputs, sch \in {FullSchema, EmptySchema} :
        StartAt("collections", <<f>>, sch, FALSE)

NextCollection ==
    \/ CollectionStep
    \/ EndLoop
    \/ PrintSummary
    \/ Exit

SpecCollection == InitCollection /\ [][NextCollection]_vars

----------------------------------------------------------------------------
(* Properties of validate_deck_file and validate_collection_file.          *)

\* The findings of a file with a message, as positions in ctx.findings.
FindingsOf(path, message) ==
    {k \in 1..Len(findings) : findings[k].path = path /\ findings[k].message = message}
HasFinding(path, message) == FindingsOf(path, message) # {}

RECURSIVE SumOver(_, _)
SumOver(f, S) ==
    IF S = {} THEN 0
    ELSE LET x == CHOOSE y \in S : TRUE IN f[x] + SumOver(f, S \ {x})

\* The latest deck file validated, its rule, and whether the call got
\* through its aggregate checks and returned.
DeckData == load_json(tree[locals.path])
DeckEntries == CardsOf(DeckData).l
RuleOfDecks == get_schema_rule(schema, "deck_file")
DeckCompleted == locals.path > 0 /\ locals.outcome = "completed"

\* An entry that is an object with a non-empty card_id and an integer qty.
ValidEntry(e) == IsDict(e) /\ Truthy(Get(e, "card_id")) /\ IsInt(Get(e, "qty"))
QtyOf == [k \in 1..Len(DeckEntries) |-> Get(DeckEntries[k], "qty").n]
\* The total quantity of a deck: every valid entry counts, resolved or not.
TotalQuantity == SumOver(QtyOf, {k \in 1..Len(DeckEntries) : ValidEntry(DeckEntries[k])})

\* C6: a deck whose validation returns gets the deck-size ERROR, once, with
\* the total and the bounds, exactly when its total quantity is below
\* min_cards or above max_cards, whatever findings its entries produced.
C6_DeckSizeError ==
    DeckCompleted =>
        /\ HasFinding(locals.path, "Deck size not in range")
              <=> (TotalQuantity < min_cards(RuleOfDecks) \/ TotalQuantity > max_cards(RuleOfDecks))
        /\ \A k \in FindingsOf(locals.path, "Deck size not in range") :
              /\ findings[k].level = "ERROR"
              /\ findings[k].args = <<JInt(TotalQuantity), JInt(min_cards(RuleOfDecks)),
                                      JInt(max_cards(RuleOfDecks))>>
        /\ Cardinality(FindingsOf(locals.path, "Deck size not in range")) <= 1

\* A deck with an unresolvable and an invalid entry, and the deck-size ERROR.
C6_Witness ==
    /\ DeckCompleted
    /\ HasFinding(locals.path, "[cards] card_id not found")
    /\ HasFinding(locals.path, "[cards] missing/invalid card_id or qty")
    /\ TotalQuantity < min_cards(RuleOfDecks)
    /\ HasFinding(locals.path, "Deck size not in range")

\* The entries that name the hero, and the copies of the hero the deck
\* lists: the quantities of the valid entries that name the hero and whose
\* card is in the index.
HeroEntries ==
    {k \in 1..Len(DeckEntries) :
        /\ IsDict(DeckEntries[k])
        /\ Truthy(Get(DeckData, "hero_id"))
        /\ Get(DeckEntries[k], "card_id") = Get(DeckData, "hero_id")}
HeroCopies ==
    SumOver(QtyOf, {k \in HeroEntries :
                        /\ ValidEntry(DeckEntries[k])
                        /\ Get(DeckEntries[k], "card_id") \in DOMAIN card_index})

\* C7 as stated: with unique_hero on, a deck whose hero is named by no
\* entry or by more than one gets the hero-copies ERROR.
C7_HeroAbsentOrRepeated ==
    (DeckCompleted /\ unique_hero(RuleOfDecks) /\ Cardinality(HeroEntries) # 1)
        => HasFinding(locals.path, "Hero copies must be exactly 1")

\* C7 amended: with unique_hero on, a deck whose validation returns gets
\* the hero-copies ERROR exactly when the quantities of the valid, resolved
\* entries that name the hero do not sum to 1.
C7_HeroCopiesSum ==
    (DeckCompleted /\ unique_hero(RuleOfDecks)) =>
        /\ HasFinding(locals.path, "Hero copies must be exactly 1") <=> HeroCopies # 1
        /\ \A k \in FindingsOf(locals.path, "Hero copies must be exactly 1") :
              findings[k].level = "ERROR" /\ findings[k].args = <<JInt(HeroCopies)>>

\* The hero is named by two entries whose quantities sum to 1: no ERROR.
C7_Witness ==
    /\ DeckCompleted /\ unique_hero(RuleOfDecks)
    /\ Cardinality(HeroEntries) = 2
    /\ HeroCopies = 1
    /\ ~HasFinding(locals.path, "Hero copies must be exactly 1")

\* The letter cases of the two words that mean hero, among the inputs.
HeroWords == {"hero", "Hero", "HERO", " hero ", "held", "Held", "HELD", " held "}

\* C8: when the hero lookup of a deck returned a card, the deck gets the
\* not-a-Hero ERROR, naming the card's type, exactly when the normalized
\* type is not "hero"; "hero" and "held" in any letter case never get it.
C8_HeroTypeError ==
    (locals.path > 0 /\ locals.hero_meta # JNull
        /\ ~norm_type_raises(GetD(locals.hero_meta, "type", JStr("")))) =>
        /\ HasFinding(locals.path, "hero_id is not a Hero")
              <=> ~(IsStr(Get(locals.hero_meta, "type"))
                        /\ Get(locals.hero_meta, "type").s \in HeroWords)
        /\ HasFinding(locals.path, "hero_id is not a Hero")
              <=> norm_type(GetD(locals.hero_meta, "type", JStr(""))) # "hero"
        /\ \A k \in FindingsOf(locals.path, "hero_id is not a Hero") :
              /\ findings[k].level = "ERROR"
              /\ findings[k].args = <<Get(DeckData, "hero_id"), Get(locals.hero_meta, "type")>>

\* A deck whose hero is a card of type "HELD" and has no ERROR for it, after
\* the call returned.
C8_Witness ==
    /\ DeckCompleted
    /\ Get(locals.hero_meta, "type") = JStr("HELD")
    /\ ~HasFinding(locals.path, "hero_id is not a Hero")

\* Whether the schema gives the deck validator no constraints.
NoConstraintsGiven == ~Has(RuleOfDecks, "constraints")

ConstraintMessages ==
    {"Deck size not in range", "More than max copies", "Too many rare cards",
     "Too many unique cards", "Hero copies must be exactly 1",
     "[cards] faction != hero faction"}

\* C9 as stated: without a deck_file category or without constraints, a
\* deck gets none of the constraint ERRORs.
C9_NoConstraintEnforced ==
    (locals.path > 0 /\ NoConstraintsGiven) =>
        \A m \in ConstraintMessages : ~HasFinding(locals.path, m)

\* The entries whose card resolved, and the faction check of one of them.
ResolvedEntries ==
    {k \in 1..Len(DeckEntries) :
        ValidEntry(DeckEntries[k]) /\ Get(DeckEntries[k], "card_id") \in DOMAIN card_index}
FactionOfEntry(k) ==
    Upper(OrEmpty(Get(card_index[Get(DeckEntries[k], "card_id")], "faction")))

\* C9 amended: without constraints in the schema the defaults are enforced:
\* size within [40, 60], at most 3 copies per name, at most 15 rare and 3
\* unique cards, exactly one hero copy, and every card of the hero's faction.
C9_DefaultConstraints ==
    (DeckCompleted /\ NoConstraintsGiven) =>
        /\ HasFinding(locals.path, "Deck size not in range")
              <=> (locals.total_qty < 40 \/ locals.total_qty > 60)
        /\ \A k \in FindingsOf(locals.path, "Deck size not in range") :
              findings[k].args = <<JInt(locals.total_qty), JInt(40), JInt(60)>>
        /\ \A n \in 1..Len(locals.name_counts) :
              (locals.name_counts[n].cnt > 3)
                  <=> \E k \in FindingsOf(locals.path, "More than max copies") :
                          findings[k].args[1] = locals.name_counts[n].name
        /\ HasFinding(locals.path, "Too many rare cards") <=> locals.rare_count > 15
        /\ HasFinding(locals.path, "Too many unique cards") <=> locals.unique_count > 3
        /\ HasFinding(locals.path, "Hero copies must be exactly 1") <=> locals.hero_seen # 1
        /\ \A e \in ResolvedEntries :
              (\E k \in FindingsOf(locals.path, "[cards] faction != hero faction") :
                    findings[k].i = e - 1)
                  <=> /\ locals.hero_faction # ""
                      /\ FactionOfEntry(e) \notin {"", locals.hero_faction}

\* A deck of 40 cards validated without a deck_file category: no deck-size
\* ERROR, but the default copy limit and rare cap are reported.
C9_Witness ==
    /\ DeckCompleted /\ ~Has(GetD(schema, "rules", EmptyRule), "deck_file")
    /\ locals.total_qty = 40
    /\ ~HasFinding(locals.path, "Deck size not in range")
    /\ HasFinding(locals.path, "More than max copies")
    /\ HasFinding(locals.path, "Too many rare cards")

\* The latest collection file validated and its elements.
CollectionPath == visited[Len(visited)].path
CollectionItems == Items(load_json(tree[CollectionPath]))
CountFindings(i, message) ==
    Cardinality({k \in FindingsOf(CollectionPath, message) : findings[k].i = i})
CountMin == GetD(get_schema_rule(schema, "collection_file"), "count_min", JInt(0)).n
CountMax == GetD(get_schema_rule(schema, "collection_file"), "count_max", JInt(99)).n

\* C10: for every object element of a validated collection file: no count
\* field, no count finding; a count that is not a JSON integer, one ERROR;
\* an integer outside [count_min, count_max], one WARN and no ERROR; an
\* integer inside, nothing.
C10_CountFindings ==
    (visited # <<>> /\ visited[Len(visited)].phase = "collections"
        /\ ~IsLoadError(load_json(tree[CollectionPath]))) =>
        \A n \in 1..Len(CollectionItems) :
            LET obj == CollectionItems[n]
                cnt == Get(obj, "count")
                errors == CountFindings(n - 1, "count is not an integer")
                warns == CountFindings(n - 1, "count out of range")
            IN  IsDict(obj) =>
                    CASE ~Has(obj, "count") -> errors = 0 /\ warns = 0
                      [] cnt.t # "int" -> errors = 1 /\ warns = 0
                      [] cnt.n < CountMin \/ cnt.n > CountMax -> errors = 0 /\ warns = 1
                      [] OTHER -> errors = 0 /\ warns = 0

----------------------------------------------------------------------------
(* SpecCard: main on a tree with one card file.                             *)

MaxCardItems == 2

cNameOnly == JDict([name |-> JStr("Nameless")])
\* id and type are present, and falsy.
cFalsy == JDict([id |-> JStr(""), type |-> JNull])

CardElements ==
    { cH1, cC1, cNoId, cN1, cNameOnly, cFalsy, cLongId, cOdd, cBadId, JInt(3), JList(<<>>) }

CardInputs ==
    {CardFile("a.json", JList(q)) : q \in SeqsOf(CardElements, 0, MaxCardItems)}
        \cup {CardFile("a.json", e) : e \in CardElements}
        \cup {Unreadable(CardFile("a.json", JNull))}

InitCard ==
    \E f \in CardInputs, sch \in {FullSchema, EmptySchema} :
        Start(<<f>>, SchemaFileOf(sch), FALSE)

NextCard ==
    \/ MainStart
    \/ CardStep
    \/ EndLoop
    \/ PrintSummary
    \/ Exit

SpecCard == InitCard /\ [][NextCard]_vars

----------------------------------------------------------------------------
(* Properties of validate_card_file.                                        *)

\* The card files validated so far whose content was loaded, and the
\* elements of one of them.
CardPaths ==
    {q \in 1..Len(tree) : Visited("cards", q) /\ ~IsLoadError(load_json(tree[q]))}
CardItems(q) == Items(load_json(tree[q]))
\* The number of findings of a file for element i with a message and arguments.
ItemFindings(q, i, message, args) ==
    Cardinality({k \in FindingsOf(q, message) :
                    findings[k].i = i /\ findings[k].args = args /\ findings[k].level = "ERROR"})
ItemFindingsAny(q, i, message) ==
    Cardinality({k \in FindingsOf(q, message) : findings[k].i = i})
RequiredOfCards == SeqRange(RequiredFields(get_schema_rule(schema, "card_file")))

\* C11: when the card loop raised nothing, every object element of a
\* validated card file has exactly one missing-required-field ERROR for each
\* required field it lacks and none for a field it has (whatever the
\* field's value); every other element has one not-an-object ERROR and no
\* field ERROR; this holds for every element, whatever came before it.
C11_OneErrorPerMissingField ==
    pc # "crashed" =>
        \A q \in CardPaths : \A n \in 1..Len(CardItems(q)) :
            LET obj == CardItems(q)[n]
            IN  IF IsDict(obj)
                THEN /\ \A field \in RequiredOfCards :
                          ItemFindings(q, n - 1, "Missing required field", <<field>>)
                              = IF Has(obj, field.s) THEN 0 ELSE 1
                     /\ ItemFindingsAny(q, n - 1, "Missing required field")
                          = Cardinality({field \in RequiredOfCards : ~Has(obj, field.s)})
                     /\ ItemFindingsAny(q, n - 1, "Not a JSON object") = 0
                ELSE /\ ItemFindings(q, n - 1, "Not a JSON object", <<>>) = 1
                     /\ ItemFindingsAny(q, n - 1, "Missing required field") = 0

\* A file whose first element is no object and whose second lacks both
\* required fields: three ERRORs.
C11_Witness ==
    /\ pc = "done" /\ 1 \in CardPaths
    /\ load_json(tree[1]) = JList(<<JInt(3), cNameOnly>>)
    /\ RequiredOfCards = {JStr("id"), JStr("type")}
    /\ ItemFindings(1, 0, "Not a JSON object", <<>>) = 1
    /\ ItemFindings(1, 1, "Missing required field", <<JStr("id")>>) = 1
    /\ ItemFindings(1, 1, "Missing required field", <<JStr("type")>>) = 1

\* The configured identifier pattern, and whether a whole identifier is in
\* its language.
IdPattern == GetD(get_schema_rule(schema, "card_file"), "id_pattern", JStr(".+")).s
FullMatch(pattern, s) == InLanguage(pattern, Chars(s))

\* C17: for every card element with a string id, the id-pattern WARN is
\* emitted, once, exactly when the whole id is not in the language of the
\* configured pattern.
C17_IdFullMatch ==
    pc # "crashed" =>
        \A q \in CardPaths : \A n \in 1..Len(CardItems(q)) :
            LET obj == CardItems(q)[n]
                cid == Get(obj, "id")
            IN  (IsDict(obj) /\ IsStr(cid) /\ Truthy(cid)) =>
                    ItemFindingsAny(q, n - 1, "id does not match pattern")
                        = IF FullMatch(IdPattern, cid.s) THEN 0 ELSE 1

----------------------------------------------------------------------------
(* Two runs over the same tree.                                             *)

\* The contexts a second run may be in after the validator call that a
\* first run is about to make, when both runs agree up to that call: the
\* same file is visited, from the same context, under the same schema.
Outcomes(phase, p) ==
    CASE phase = "cards" -> {validate_card_file(Ctx, schema, p, tree[p])}
      [] phase = "collections" -> {validate_collection_file(Ctx, schema, p, tree[p])}
      [] phase = "rules" ->
            {validate_rules_file(Ctx, schema, p, tree[p], order) :
                order \in Orders(MissingKeywords(get_schema_rule(schema, "rules_file"),
                                                 load_json(tree[p])))}
      [] OTHER -> {validate_deck_file(Ctx, schema, p, tree[p]).c}

\* C12: two runs that agree up to a validator call agree after it: every
\* context the call may produce holds the findings this run gets, so the
\* sequences of findings and the final status of the two runs are equal.
C12_SameFindings ==
    [][\A phase \in Phases :
          (pc = phase /\ Pending(phase, pos) # {}) =>
              \A c \in Outcomes(phase, NextPos(phase, pos)) :
                  /\ c.findings = findings'
                  /\ ResultLine(c.findings, strict) = ResultLine(findings', strict)]_vars

----------------------------------------------------------------------------
(* Further properties of validate_deck_file.                                *)

TokenWords == {"token", "Token", "TOKEN", "spielstein", "Spielstein", "SPIELSTEIN"}

\* The card an entry or the hero_id resolved to, and the display name,
\* faction and flags of an entry's card.
MetaOf(cid) == card_index[cid]
EntryMeta(k) == MetaOf(Get(DeckEntries[k], "card_id"))
EntryName(k) == DisplayName(EntryMeta(k), Get(DeckEntries[k], "card_id"))
SameNameQty(k) == SumOver(QtyOf, {j \in ResolvedEntries : EntryName(j) = EntryName(k)})
RareQty == SumOver(QtyOf, {k \in ResolvedEntries : rarity_flags(EntryMeta(k))[1]})
UniqueQty == SumOver(QtyOf, {k \in ResolvedEntries : rarity_flags(EntryMeta(k))[2]})
IsWord(v, words) == IsStr(v) /\ v.s \in words
FactionText(v) == IF IsStr(v) THEN Upper(v.s) ELSE ""

\* The latest deck validated satisfies every constraint of its rule.
Conforming ==
    /\ locals.path > 0
    /\ IsDict(DeckData) /\ ~IsLoadError(DeckData)
    /\ \A field \in SeqRange(RequiredFields(RuleOfDecks)) : Has(DeckData, field.s)
    /\ IsStr(Get(DeckData, "hero_id")) /\ Truthy(Get(DeckData, "hero_id"))
    /\ Get(DeckData, "hero_id") \in DOMAIN card_index
    /\ IsWord(Get(MetaOf(Get(DeckData, "hero_id")), "type"), HeroWords)
    /\ FactionText(Get(DeckData, "faction")) # ""
    /\ FactionText(Get(DeckData, "faction"))
          = FactionText(Get(MetaOf(Get(DeckData, "hero_id")), "faction"))
    /\ IsList(Get(DeckData, "cards"))
    /\ \A k \in 1..Len(DeckEntries) :
          /\ ValidEntry(DeckEntries[k]) /\ k \in ResolvedEntries
          /\ IsStr(GetD(EntryMeta(k), "type", JStr("")))
          /\ ~IsWord(Get(EntryMeta(k), "type"), TokenWords)
          /\ FactionText(Get(EntryMeta(k), "faction")) = FactionText(Get(DeckData, "faction"))
          /\ SameNameQty(k) <= max_same(RuleOfDecks)
    /\ TotalQuantity >= min_cards(RuleOfDecks) /\ TotalQuantity <= max_cards(RuleOfDecks)
    /\ RareQty <= max_rare(RuleOfDecks)
    /\ UniqueQty <= max_unique(RuleOfDecks)
    /\ HeroCopies = 1

\* Whether another file than the latest deck has a finding that fails the run.
FailsElsewhere ==
    \E k \in 1..Len(findings) :
        /\ findings[k].path # locals.path
        /\ findings[k].level = "ERROR" \/ (strict /\ findings[k].level = "WARN")

\* C13: a deck that satisfies every constraint is validated to the end with
\* no finding and a hero-seen count of 1, and the result of a run is OK
\* unless another file fails it.
C13_ConformingDeckIsClean ==
    Conforming =>
        /\ locals.outcome = "completed"
        /\ \A k \in 1..Len(findings) : findings[k].path # locals.path
        /\ locals.hero_seen = 1
        /\ (summary.printed /\ ~FailsElsewhere) => summary.result = "OK"

\* A conforming deck of two cards, validated under min_cards = 2, at the
\* end of a run whose result is OK.
C13_Witness ==
    /\ Conforming /\ summary.printed
    /\ Len(DeckEntries) = 2 /\ min_cards(RuleOfDecks) = 2
    /\ locals.hero_seen = 1
    /\ \A k \in 1..Len(findings) : findings[k].path # locals.path
    /\ summary.result = "OK"

\* The number of findings of the latest deck for entry k with a message.
EntryFindings(k, message) ==
    Cardinality({j \in FindingsOf(locals.path, message) : findings[j].i = k - 1})

\* C14: in a deck whose validation returns, every valid entry whose card
\* resolves to a token ("token" or "spielstein", in any letter case) has one
\* token ERROR, whatever else the deck reports, and no other entry has one.
C14_TokenError ==
    DeckCompleted =>
        /\ \A k \in 1..Len(DeckEntries) :
              EntryFindings(k, "[cards] appears to be a token")
                  = IF k \in ResolvedEntries /\ IsWord(Get(EntryMeta(k), "type"), TokenWords)
                    THEN 1 ELSE 0
        /\ \A j \in FindingsOf(locals.path, "[cards] appears to be a token") :
              findings[j].level = "ERROR" /\ findings[j].i \in 0..(Len(DeckEntries) - 1)

\* A deck with a token of another faction after an unresolvable entry: the
\* token ERROR next to the faction, not-found and deck-size ERRORs.
C14_Witness ==
    /\ DeckCompleted /\ Len(DeckEntries) = 2
    /\ Get(DeckEntries[2], "card_id") = JStr("T2")
    /\ EntryFindings(1, "[cards] card_id not found") = 1
    /\ EntryFindings(2, "[cards] faction != hero faction") = 1
    /\ EntryFindings(2, "[cards] appears to be a token") = 1
    /\ HasFinding(locals.path, "Deck size not in range")

\* A faction code in upper case; "" for a missing or empty one.
FactionCode(v) ==
    IF ~IsStr(v) THEN ""
    ELSE CASE v.s \in {"AX", "ax"} -> "AX"
           [] v.s \in {"BR", "br"} -> "BR"
           [] OTHER -> v.s

\* Whether the hero check of the latest deck got a card from the lookup
\* and read its type and faction.
HeroResolved ==
    /\ locals.path > 0 /\ locals.hero_meta # JNull
    /\ ~norm_type_raises(GetD(locals.hero_meta, "type", JStr("")))
    /\ ~OrEmptyRaises(Get(locals.hero_meta, "faction"))

\* C15: when the hero of a deck is resolved, the deck has exactly one
\* deck-level faction ERROR, naming both factions in upper case, if the
\* declared faction and the hero's are both non-empty and differ after
\* upper-casing, and none otherwise, however many entries the deck has and
\* whatever their faction checks report.
C15_DeckFactionError ==
    HeroResolved =>
        LET declared == FactionCode(Get(DeckData, "faction"))
            actual == FactionCode(Get(locals.hero_meta, "faction"))
            found == FindingsOf(locals.path, "Deck faction != hero faction")
        IN  /\ Cardinality(found)
                  = IF declared # "" /\ actual # "" /\ declared # actual THEN 1 ELSE 0
            /\ \A k \in found :
                  /\ findings[k].level = "ERROR"
                  /\ findings[k].args = <<JStr(declared), JStr(actual)>>

\* Scenario D with an entry in the deck: the deck declares AX, its hero is
\* of BR: one deck-level ERROR.
C15_Witness ==
    /\ DeckCompleted /\ HeroResolved
    /\ FactionCode(Get(DeckData, "faction")) = "AX"
    /\ FactionCode(Get(locals.hero_meta, "faction")) = "BR"
    /\ Cardinality(FindingsOf(locals.path, "Deck faction != hero faction")) = 1
    /\ Len(DeckEntries) >= 1

----------------------------------------------------------------------------
(* The classification of files.                                             *)

\* The categories a file was validated under so far.
ValidatedUnder(p) == {phase \in Phases : Visited(phase, p)}

\* C16: no file of the tree is classified into, and validated under, more
\* than one of the categories card, collection, rules and deck during a run.
C16_OneCategoryPerFile ==
    \A p \in 1..Len(tree) : Cardinality(ValidatedUnder(p)) <= 1

----------------------------------------------------------------------------
(* The counters of validate_deck_file.                                      *)

\* The findings of the latest deck for entry k, whatever the message.
AllEntryFindings(k) ==
    {j \in 1..Len(findings) : findings[j].path = locals.path /\ findings[j].i = k - 1}

----------------------------------------------------------------------------
(* A deck object whose cards value is no list.                              *)

\* The latest deck validated is an object with a cards value that is not a
\* list, and its validation raised nothing.
CardsNotAList ==
    /\ locals.path > 0 /\ locals.outcome # "raised"
    /\ IsDict(DeckData) /\ ~IsLoadError(DeckData)
    /\ Has(DeckData, "cards") /\ Get(DeckData, "cards") # JNull
    /\ ~IsList(Get(DeckData, "cards"))

\* C19: a deck object whose cards value is not a list, falsy values such as
\* 0 or {} included, has the cards-must-be-a-list ERROR and no finding for
\* an entry.
C19_CardsMustBeList ==
    CardsNotAList =>
        /\ Cardinality(FindingsOf(locals.path, "cards must be a list")) = 1
        /\ \A j \in 1..Len(findings) :
              findings[j].path = locals.path => findings[j].i = -1

\* The card the hero_id of the latest deck names, None if no card file holds it.
HeroCard ==
    IF Get(DeckData, "hero_id") \in DOMAIN card_index
    THEN card_index[Get(DeckData, "hero_id")]
    ELSE LazySearch(Get(DeckData, "hero_id"), 1)

\* C20: a deck object whose cards value is not a list still gets the
\* findings of the hero resolution: hero_id missing, hero not found, hero
\* not of type hero, deck faction differing from the hero's.
C20_HeroCheckedWithoutCards ==
    (CardsNotAList /\ Hashable(Get(DeckData, "hero_id"))) =>
        LET hero_id == Get(DeckData, "hero_id")
            declared == FactionCode(Get(DeckData, "faction"))
            actual == FactionCode(Get(HeroCard, "faction"))
        IN  IF ~Truthy(hero_id) THEN HasFinding(locals.path, "hero_id is missing")
            ELSE IF ~Truthy(HeroCard) THEN HasFinding(locals.path, "hero_id not found")
            ELSE /\ ~IsWord(Get(HeroCard, "type"), HeroWords)
                        => HasFinding(locals.path, "hero_id is not a Hero")
                 /\ (declared # "" /\ actual # "" /\ declared # actual)
                        => HasFinding(locals.path, "Deck faction != hero faction")

----------------------------------------------------------------------------
(* The structural gate of validate_deck_file.                               *)

\* The deck loop is about to validate a file whose content parsed and is
\* no object.
NonObjectDeckNext ==
    /\ pc = "decks" /\ Pending("decks", pos) # {}
    /\ ~IsDict(load_json(tree[NextPos("decks", pos)]))

\* C21: the validation of a deck file whose content is not an object adds
\* one ERROR for the file and nothing else, leaves the Card Index and the
\* lazy searches as they were, and the deck loop goes on behind the file.
C21_NonObjectDeck ==
    [][NonObjectDeckNext =>
          /\ findings' = Append(findings,
                                Finding(NextPos("decks", pos), "ERROR",
                                        "Deck file must be a JSON object", -1, <<>>))
          /\ card_index' = card_index
          /\ scans' = scans
          /\ locals'.outcome = "not_object"
          /\ pc' = "decks" /\ pos' = NextPos("decks", pos) + 1
          /\ exitStatus' = exitStatus]_vars

\* A deck file holding a list was validated, with its one ERROR, and the
\* deck file behind it was validated after it.
C21_Witness ==
    \E a, b \in 1..Len(visited) :
        /\ a < b
        /\ visited[a].phase = "decks" /\ visited[b].phase = "decks"
        /\ IsList(load_json(tree[visited[a].path]))
        /\ Cardinality(FindingsOf(visited[a].path, "Deck file must be a JSON object")) = 1

----------------------------------------------------------------------------
(* The copy limit of validate_deck_file.                                    *)

\* The display name as the card's name or else the card id, and the summed
\* quantity of the resolved entries that share it.
StatedName(k) ==
    IF Truthy(Get(EntryMeta(k), "name")) THEN Get(EntryMeta(k), "name")
    ELSE Get(DeckEntries[k], "card_id")
StatedNameQty(k) == SumOver(QtyOf, {j \in ResolvedEntries : StatedName(j) = StatedName(k)})

\* The copy-limit findings of the latest deck that name a display name.
CopyFindings(name) ==
    {f \in FindingsOf(locals.path, "More than max copies") : findings[f].args[1] = name}

\* C22 as stated: with the display name being the card's name or else the
\* card id, a deck whose validation returns gets exactly one copy-limit
\* ERROR for each display name whose summed quantity exceeds max_same_card
\* and none for the other names.
C22_CopyLimitByNameOrId ==
    DeckCompleted =>
        \A k \in ResolvedEntries :
            Cardinality(CopyFindings(StatedName(k)))
                = IF StatedNameQty(k) > max_same(RuleOfDecks) THEN 1 ELSE 0

\* C22 amended: the display name is the card's name, or else its title, or
\* else the card id.  The quantities of the resolved entries that share a
\* display name are summed across card ids, and a deck whose validation
\* returns gets exactly one copy-limit ERROR, with the name, the sum and the
\* limit, for each display name whose sum exceeds max_same_card, and none
\* for the other names.
C22_CopyLimitByDisplayName ==
    DeckCompleted =>
        /\ \A k \in ResolvedEntries :
              Cardinality(CopyFindings(EntryName(k)))
                  = IF SameNameQty(k) > max_same(RuleOfDecks) THEN 1 ELSE 0
        /\ \A f \in FindingsOf(locals.path, "More than max copies") :
              /\ findings[f].level = "ERROR"
              /\ \E k \in ResolvedEntries :
                    findings[f].args = <<EntryName(k), JInt(SameNameQty(k)),
                                         JInt(max_same(RuleOfDecks))>>

\* Two entries of different card ids, one named by its name and one by its
\* title, share a display name; each is within the limit, their sum is not,
\* and the deck has one copy-limit ERROR.
C22_Witness ==
    /\ DeckCompleted /\ Len(DeckEntries) = 2 /\ ResolvedEntries = {1, 2}
    /\ Get(DeckEntries[1], "card_id") # Get(DeckEntries[2], "card_id")
    /\ Has(EntryMeta(1), "name") /\ ~Has(EntryMeta(2), "name")
    /\ EntryName(1) = EntryName(2)
    /\ QtyOf[1] <= max_same(RuleOfDecks) /\ QtyOf[2] <= max_same(RuleOfDecks)
    /\ SameNameQty(1) > max_same(RuleOfDecks)
    /\ Cardinality(FindingsOf(locals.path, "More than max copies")) = 1

----------------------------------------------------------------------------
(* The rarity caps of validate_deck_file.                                   *)

\* The flags as stated: the rarity is the string "R", respectively the
\* unique flag is true or the rarity is the string "U".
StatedRare(k) == Get(EntryMeta(k), "rarity") = JStr("R")
StatedUnique(k) ==
    Get(EntryMeta(k), "unique") = JBool(TRUE) \/ Get(EntryMeta(k), "rarity") = JStr("U")
StatedRareQty == SumOver(QtyOf, {k \in ResolvedEntries : StatedRare(k)})
StatedUniqueQty == SumOver(QtyOf, {k \in ResolvedEntries : StatedUnique(k)})

\* C23 as stated: a deck whose validation returns gets the rare-cap ERROR
\* exactly when the quantities of its resolved entries of rarity "R" sum to
\* more than max_rare_cards, the unique-cap ERROR exactly when those of its
\* resolved entries with a true unique flag or rarity "U" sum to more than
\* max_unique_cards, and each at most once.
C23_RarityCapsExactLetter ==
    DeckCompleted =>
        /\ HasFinding(locals.path, "Too many rare cards")
              <=> StatedRareQty > max_rare(RuleOfDecks)
        /\ HasFinding(locals.path, "Too many unique cards")
              <=> StatedUniqueQty > max_unique(RuleOfDecks)
        /\ Cardinality(FindingsOf(locals.path, "Too many rare cards")) <= 1
        /\ Cardinality(FindingsOf(locals.path, "Too many unique cards")) <= 1

\* The flags in either letter case, and with any truthy unique flag.
RareLetters == {"R", "r"}
UniqueLetters == {"U", "u"}
AnyCaseRare(k) == IsWord(Get(EntryMeta(k), "rarity"), RareLetters)
AnyCaseUnique(k) ==
    Truthy(Get(EntryMeta(k), "unique")) \/ IsWord(Get(EntryMeta(k), "rarity"), UniqueLetters)
AnyCaseRareQty == SumOver(QtyOf, {k \in ResolvedEntries : AnyCaseRare(k)})
AnyCaseUniqueQty == SumOver(QtyOf, {k \in ResolvedEntries : AnyCaseUnique(k)})

\* C23 amended: the rarity is compared in upper case, so "r" is rare and
\* "u" is unique, and a truthy unique flag makes a card unique.  A deck
\* whose validation returns gets the rare-cap ERROR, with the sum and the
\* cap, exactly when the quantities of its resolved rare entries sum to more
\* than max_rare_cards, likewise the unique-cap ERROR, and each at most once.
C23_RarityCaps ==
    DeckCompleted =>
        /\ HasFinding(locals.path, "Too many rare cards")
              <=> AnyCaseRareQty > max_rare(RuleOfDecks)
        /\ HasFinding(locals.path, "Too many unique cards")
              <=> AnyCaseUniqueQty > max_unique(RuleOfDecks)
        /\ \A f \in FindingsOf(locals.path, "Too many rare cards") :
              /\ findings[f].level = "ERROR"
              /\ findings[f].args = <<JInt(AnyCaseRareQty), JInt(max_rare(RuleOfDecks))>>
        /\ \A f \in FindingsOf(locals.path, "Too many unique cards") :
              /\ findings[f].level = "ERROR"
              /\ findings[f].args = <<JInt(AnyCaseUniqueQty), JInt(max_unique(RuleOfDecks))>>
        /\ Cardinality(FindingsOf(locals.path, "Too many rare cards")) <= 1
        /\ Cardinality(FindingsOf(locals.path, "Too many unique cards")) <= 1

\* A deck of a card of rarity "R" and a card of rarity "u", each above its
\* cap: one rare-cap and one unique-cap ERROR.
C23_Witness ==
    /\ DeckCompleted /\ Len(DeckEntries) = 2 /\ ResolvedEntries = {1, 2}
    /\ Get(EntryMeta(1), "rarity") = JStr("R")
    /\ Get(EntryMeta(2), "rarity") = JStr("u")
    /\ QtyOf[1] > max_rare(RuleOfDecks) /\ QtyOf[2] > max_unique(RuleOfDecks)
    /\ Cardinality(FindingsOf(locals.path, "Too many rare cards")) = 1
    /\ Cardinality(FindingsOf(locals.path, "Too many unique cards")) = 1

----------------------------------------------------------------------------
(* The Card Index during the deck loop, and the load failures.              *)

\* C24: once the card loop is over, a step of the deck loop leaves the Card
\* Index as it is: no fallback search of a deck finds a card the card loop
\* did not index, and the summary counts the cards the card loop indexed.
C24_DecksKeepCardIndex ==
    [][pc = "decks" => card_index' = card_index]_vars

\* C25: a file has a "JSON load failed" ERROR only when it could not be
\* read or parsed; a file whose content parsed, whatever its keys, has none.
C25_LoadFailedOnlyWhenUnreadable ==
    \A k \in 1..Len(findings) :
        findings[k].message = "JSON load failed" => ~tree[findings[k].path].readable

====
